---- MODULE Spec2Model ----
(***************************************************************************)
(* Model of js/error-handler.js: the domain classifier, the stub registry, *)
(* the console filter, the XHR / fetch interceptors, the script-element    *)
(* interceptor and the cookie-consent flow.                                 *)
(*                                                                          *)
(* JavaScript strings are TLA+ strings (Len, SubSeq and \o act on them).    *)
(* Other JavaScript values are records [type, val].                         *)
(***************************************************************************)
EXTENDS Integers, Sequences, FiniteSets, TLC

VARIABLES
    candidate, verdict,                              \* classifier call
    window, windowBefore, windowAfterFirst,          \* global object, stub registry
    stubRuns, stubThrown,
    conCall, conForwarded,                           \* console filter
    conArgs,
    cookieConsent, banner, domReady, loads,          \* consent flow
    xhrCount, lastOp, outcome, origCalls,            \* page operations, request interceptor
    element, elOp                                    \* element interceptor

classifierVars == <<candidate, verdict>>
stubVars == <<window, windowBefore, windowAfterFirst, stubRuns, stubThrown>>
consoleVars == <<conArgs, conCall, conForwarded>>
pageVars == <<cookieConsent, banner, domReady, loads, xhrCount, lastOp, outcome, origCalls>>
scriptVars == <<element, elOp>>
vars == <<classifierVars, stubVars, consoleVars, pageVars, scriptVars>>

(***************************************************************************)
(* JavaScript values                                                        *)
(***************************************************************************)
Str(s) == [type |-> "string", val |-> s]
Null == [type |-> "null", val |-> ""]
Undefined == [type |-> "undefined", val |-> ""]
Num(n) == [type |-> "number", val |-> n]
Bool(b) == [type |-> "boolean", val |-> b]
Obj(id) == [type |-> "object", val |-> id]
Fn(id) == [type |-> "function", val |-> id]

\* ToBoolean, as applied by `!x` and `x && ...`
Truthy(v) ==
    CASE v.type = "undefined" -> FALSE
      [] v.type = "null" -> FALSE
      [] v.type = "boolean" -> v.val = "true"
      [] v.type = "number" -> v.val \notin {"0", "NaN"}
      [] v.type = "string" -> v.val # ""
      [] OTHER -> TRUE

(***************************************************************************)
(* String primitives                                                        *)
(***************************************************************************)
UpperAlpha == "ABCDEFGHIJKLMNOPQRSTUVWXYZ"
LowerAlpha == "abcdefghijklmnopqrstuvwxyz"

CharAt(s, i) == SubSeq(s, i, i)

UpperToLower ==
    [c \in {CharAt(UpperAlpha, i) : i \in 1..Len(UpperAlpha)} |->
        CharAt(LowerAlpha, CHOOSE i \in 1..Len(UpperAlpha) : CharAt(UpperAlpha, i) = c)]

LowerToUpper ==
    [c \in {CharAt(LowerAlpha, i) : i \in 1..Len(LowerAlpha)} |->
        CharAt(UpperAlpha, CHOOSE i \in 1..Len(LowerAlpha) : CharAt(LowerAlpha, i) = c)]

RECURSIVE MapChars(_, _, _)
MapChars(f, s, i) ==
    IF i > Len(s) THEN ""
    ELSE LET c == CharAt(s, i)
         IN (IF c \in DOMAIN f THEN f[c] ELSE c) \o MapChars(f, s, i + 1)

\* String.prototype.toLowerCase on ASCII text
toLowerCase(s) == MapChars(UpperToLower, s, 1)

\* String.prototype.toUpperCase on ASCII text (used to build inputs only)
toUpperCase(s) == MapChars(LowerToUpper, s, 1)

\* String.prototype.includes
includes(s, sub) ==
    \E i \in 1..(Len(s) - Len(sub) + 1) : SubSeq(s, i, i + Len(sub) - 1) = sub

\* domain.replace(/\./g, '-')
replaceDots(s) == MapChars([c \in {"."} |-> "-"], s, 1)

(***************************************************************************)
(* Domain classifier                                                        *)
(***************************************************************************)
blockedDomains == <<
    "googletagmanager.com", "google-analytics.com", "analytics.google.com",
    "analytics", "segment.com", "segment.io", "mixpanel.com",
    "facebook.net", "facebook.com", "twitter.com", "ads-twitter.com",
    "linkedin.com", "tiktok.com", "snap.com", "pinterest.com",
    "doubleclick.net", "adsystem.com", "adnxs.com", "advertising",
    "adroll.com", "criteo.com", "outbrain.com",
    "firstpromoter.com", "redditstatic.com", "hsforms.com", "hs-scripts.com",
    "hs-analytics", "hubspot.com", "marketo.com", "salesforce.com",
    "hotjar.com", "mouseflow.com", "clarity.ms", "luckyorange.com",
    "crazyegg.com",
    "tracking", "telemetry", "metrics", "pixel", "beacon", "collect" >>

\* the entries with every dot replaced by a hyphen, domain.replace(/\./g, '-')
hyphenated == [k \in DOMAIN blockedDomains |-> replaceDots(blockedDomains[k])]

\* mutant: the candidate is not lower-cased before matching
matchBlockedDomains_caseSensitive(url) ==
    IF ~Truthy(url) THEN FALSE
    ELSE \E k \in DOMAIN blockedDomains :
            \/ includes(url.val, blockedDomains[k])
            \/ includes(url.val, hyphenated[k])

\* the body of isDomainBlocked, for a string, null or undefined
matchBlockedDomains(url) ==
    IF ~Truthy(url) THEN FALSE
    ELSE LET urlLower == toLowerCase(url.val)
         IN \E k \in DOMAIN blockedDomains :
                \/ includes(urlLower, blockedDomains[k])
                \/ includes(urlLower, hyphenated[k])

\* The strings the request and element interceptors are driven with.
BlockedUrl == "https://googletagmanager.com/gtm.js"
BlockedVariant == "HTTPS://CDN.HS-SCRIPTS-COM.EXAMPLE/V2.JS"
PlainUrl == "https://example.com/data.json"
BlockedBody == "event=view&to=mixpanel.com"
PlainBody == "name=Ada&city=Paris"
PageStrings == {BlockedUrl, BlockedVariant, PlainUrl, BlockedBody, PlainBody, "/api/items"}

\* matchBlockedDomains over PageStrings, evaluated once
blockedOfPageString == [s \in PageStrings |-> matchBlockedDomains(Str(s))]

\* trackingProtection.isDomainBlocked(url)
isDomainBlocked(url) ==
    IF url.type = "string" /\ url.val \in PageStrings
    THEN blockedOfPageString[url.val]
    ELSE matchBlockedDomains(url)

\* ---- inputs of the classifier ----
MaxPad == 1

RECURSIVE Repeat(_, _)
Repeat(s, n) == IF n <= 0 THEN "" ELSE s \o Repeat(s, n - 1)

\* an entry with its first character dropped: usually no longer an entry
\* (Benign: further strings, most of them without an entry)
DropFirst(s) == SubSeq(s, 2, Len(s))

Benign == {"https://example.com/app.js", "/api/items?id=7", "cdn.jsdelivr.net/npm/vue.js",
           "segment-co", "pix.el", "GOOGLE.COM", "a",
           "https://www.google-analytics.com/collect"}

Middles ==
    UNION {{blockedDomains[k], toUpperCase(blockedDomains[k]),
            replaceDots(blockedDomains[k]), toUpperCase(replaceDots(blockedDomains[k])),
            DropFirst(blockedDomains[k])}
           : k \in DOMAIN blockedDomains}
    \cup Benign

CandidateStrings ==
    {Repeat("x", i) \o m \o Repeat("/", j) : i \in 0..MaxPad, j \in 0..MaxPad, m \in Middles}

Candidates == {Str(s) : s \in CandidateStrings \cup {""}} \cup {Null, Undefined}

\* verdict: "pending" before the call, then the boolean returned, as "true" / "false"
Pending == "pending"
Returned(b) == IF b THEN "true" ELSE "false"

InitClassifier == candidate = Undefined /\ verdict = Pending

InitClassifierAny == candidate \in Candidates /\ verdict = Pending

\* the call isDomainBlocked(candidate)
Classify ==
    /\ verdict = Pending
    /\ verdict' = Returned(isDomainBlocked(candidate))
    /\ UNCHANGED candidate

(***************************************************************************)
(* Stub registry                                                            *)
(***************************************************************************)
\* The global object maps the names of its properties to descriptors: a
\* data property, or an accessor whose getter returns `value` and whose
\* setter (when it has one) stores it.
DataProp(v, w, c) == [kind |-> "data", value |-> v, writable |-> w,
                      configurable |-> c, setter |-> FALSE]
AccessorProp(v, s, c) == [kind |-> "accessor", value |-> v, writable |-> FALSE,
                          configurable |-> c, setter |-> s]

trackingStubs == <<
    [key |-> "gtag", value |-> Fn("stub:gtag")],
    [key |-> "ga", value |-> Fn("stub:ga")],
    [key |-> "google_tag_manager", value |-> Obj("stub:google_tag_manager")],
    [key |-> "GoogleAnalyticsObject", value |-> Bool("true")],
    [key |-> "__ga__", value |-> Fn("stub:__ga__")],
    [key |-> "fbq", value |-> Fn("stub:fbq")],
    [key |-> "fb", value |-> Fn("stub:fb")],
    [key |-> "fbevents", value |-> Fn("stub:fbevents")],
    [key |-> "twq", value |-> Fn("stub:twq")],
    [key |-> "ttq", value |-> Fn("stub:ttq")],
    [key |-> "lintrk", value |-> Fn("stub:lintrk")],
    [key |-> "rdt", value |-> Fn("stub:rdt")],
    [key |-> "pintrk", value |-> Fn("stub:pintrk")],
    [key |-> "snaptr", value |-> Fn("stub:snaptr")],
    [key |-> "hsq", value |-> Fn("stub:hsq")],
    [key |-> "hbspt", value |-> Obj("stub:hbspt")],
    [key |-> "analytics", value |-> Fn("stub:analytics")],
    [key |-> "_satellite", value |-> Obj("stub:_satellite")],
    [key |-> "dataLayer", value |-> Obj("stub:dataLayer")],
    [key |-> "hj", value |-> Fn("stub:hj")],
    [key |-> "clarity", value |-> Fn("stub:clarity")],
    [key |-> "trackEvent", value |-> Fn("stub:trackEvent")],
    [key |-> "trackPageview", value |-> Fn("stub:trackPageview")],
    [key |-> "trackCustom", value |-> Fn("stub:trackCustom")] >>

StubKeys == {trackingStubs[k].key : k \in DOMAIN trackingStubs}

\* window[key]
GetProp(win, key) == IF key \in DOMAIN win THEN win[key].value ELSE Undefined

PutProp(win, key, p) ==
    [k \in DOMAIN win \cup {key} |-> IF k = key THEN p ELSE win[k]]

\* Object.defineProperty(window, key, {value, writable: false, configurable: false}):
\* [ok, win]; ok = FALSE is the TypeError of ValidateAndApplyPropertyDescriptor.
DefineStub(win, key, value) ==
    LET stub == DataProp(value, FALSE, FALSE)
    IN CASE key \notin DOMAIN win -> [ok |-> TRUE, win |-> PutProp(win, key, stub)]
         [] win[key].configurable -> [ok |-> TRUE, win |-> PutProp(win, key, stub)]
         [] win[key].kind = "data" /\ win[key].writable ->
                [ok |-> TRUE, win |-> PutProp(win, key, stub)]
         [] win[key].kind = "data" /\ win[key].value = value -> [ok |-> TRUE, win |-> win]
         [] OTHER -> [ok |-> FALSE, win |-> win]

\* window[key] = value in strict-mode code ('use strict' at line 3):
\* ok = FALSE is the TypeError of a failed assignment
AssignProp(win, key, value) ==
    CASE key \notin DOMAIN win ->
            [ok |-> TRUE, win |-> PutProp(win, key, DataProp(value, TRUE, TRUE))]
      [] win[key].kind = "data" /\ win[key].writable ->
            [ok |-> TRUE, win |-> [win EXCEPT ![key].value = value]]
      [] win[key].kind = "accessor" /\ win[key].setter ->
            [ok |-> TRUE, win |-> [win EXCEPT ![key].value = value]]
      [] OTHER -> [ok |-> FALSE, win |-> win]

\* the forEach callback for one [key, value] entry: [ok, win]
InstallStub(win, key, value) ==
    IF ~Truthy(GetProp(win, key))
    THEN LET d == DefineStub(win, key, value)
         IN IF d.ok THEN d ELSE AssignProp(win, key, value)
    ELSE [ok |-> TRUE, win |-> win]

\* forEach over Object.entries(trackingStubs) from entry k; an exception of the
\* callback ends the loop: [win, thrown]
RECURSIVE SetupFrom(_, _)
SetupFrom(win, k) ==
    IF k > Len(trackingStubs) THEN [win |-> win, thrown |-> FALSE]
    ELSE LET r == InstallStub(win, trackingStubs[k].key, trackingStubs[k].value)
         IN IF r.ok THEN SetupFrom(r.win, k + 1)
            ELSE [win |-> r.win, thrown |-> TRUE]

setupStubs(win) == SetupFrom(win, 1)

\* ---- the global object before the script runs ----
MaxRuns == 2

AppGlobals == {"gtag", "dataLayer"}
AppValues == {Num("0"), Str(""), Bool("false"), Null, Fn("app")}
AppProps ==
    {DataProp(v, w, c) : v \in AppValues, w \in BOOLEAN, c \in BOOLEAN}
    \cup {AccessorProp(v, s, c) : v \in AppValues, s \in BOOLEAN, c \in BOOLEAN}

\* the global objects that define some of AppGlobals, each in any way
AppWindows == UNION {[names -> AppProps] : names \in SUBSET AppGlobals}

\* the specifications of the other components leave the global object out
InitStubs ==
    /\ window = <<>>
    /\ windowBefore = <<>>
    /\ windowAfterFirst = <<>>
    /\ stubRuns = 0
    /\ stubThrown = FALSE

InitStubsAny ==
    /\ window \in AppWindows
    /\ windowBefore = window
    /\ windowAfterFirst = window
    /\ stubRuns = 0
    /\ stubThrown = FALSE

\* one call trackingProtection.setupStubs()
SetupStubs ==
    /\ stubRuns < MaxRuns
    /\ LET r == setupStubs(window)
       IN /\ window' = r.win
          /\ stubThrown' = r.thrown
          /\ windowAfterFirst' = IF stubRuns = 0 THEN r.win ELSE windowAfterFirst
    /\ stubRuns' = stubRuns + 1
    /\ UNCHANGED windowBefore

(***************************************************************************)
(* Console filter                                                           *)
(***************************************************************************)
debugMode == FALSE
blockConsoleErrors == TRUE

\* args.join(' ') for string arguments
RECURSIVE join(_, _)
join(args, sep) ==
    IF Len(args) = 0 THEN ""
    ELSE IF Len(args) = 1 THEN args[1]
    ELSE args[1] \o sep \o join(Tail(args), sep)

\* mutant: the arguments are joined without the separator
shouldBlock_noSeparator(args) ==
    LET message == toLowerCase(join(args, ""))
    IN \/ includes(message, "err_blocked_by_client")
       \/ includes(message, "failed to load")
       \/ includes(message, "gtm")
       \/ includes(message, "analytics")
       \/ includes(message, "tracking")
       \/ includes(message, "pixel")
       \/ includes(message, "error loading script")

shouldBlock(args) ==
    LET message == toLowerCase(join(args, " "))
    IN \/ includes(message, "err_blocked_by_client")
       \/ includes(message, "failed to load")
       \/ includes(message, "gtm")
       \/ includes(message, "analytics")
       \/ includes(message, "tracking")
       \/ includes(message, "pixel")
       \/ includes(message, "error loading script")

\* The calls of the original sinks made by console.<method>(...args) once
\* consoleManager.init() has run: a sequence of [sink, args].
consoleError(args) ==
    IF blockConsoleErrors
    THEN IF ~shouldBlock(args) THEN <<[sink |-> "error", args |-> args]>> ELSE <<>>
    ELSE <<[sink |-> "error", args |-> args]>>

consoleWarn(args) ==
    IF blockConsoleErrors
    THEN IF ~shouldBlock(args) THEN <<[sink |-> "warn", args |-> args]>> ELSE <<>>
    ELSE <<[sink |-> "warn", args |-> args]>>

consoleDebug(args) ==
    IF debugMode THEN <<[sink |-> "debug", args |-> args]>> ELSE <<>>

\* ---- inputs of the console filter ----
MaxArgs == 2

ArgTexts == {"Failed to load resource", "hello world", "GTM", "net::ERR_BLOCKED_BY_CLIENT",
             "pix", "el", "Error loading", "script", "Tracking", "analytic", "s", ""}

ArgLists == UNION {[1..n -> ArgTexts] : n \in 0..MaxArgs}

InitConsole == conArgs = <<>> /\ conCall = "none" /\ conForwarded = <<>>

InitConsoleAny == conArgs \in ArgLists /\ conCall = "none" /\ conForwarded = <<>>

\* console.error(...conArgs)
ConsoleError ==
    /\ conCall' = "error"
    /\ conForwarded' = consoleError(conArgs)
    /\ UNCHANGED conArgs

\* console.warn(...conArgs)
ConsoleWarn ==
    /\ conCall' = "warn"
    /\ conForwarded' = consoleWarn(conArgs)
    /\ UNCHANGED conArgs

\* console.debug(...conArgs)
ConsoleDebug ==
    /\ conCall' = "debug"
    /\ conForwarded' = consoleDebug(conArgs)
    /\ UNCHANGED conArgs

(***************************************************************************)
(* Request interceptor                                                      *)
(***************************************************************************)
Request(url) == [type |-> "Request", val |-> url]

Blocked == [kind |-> "rejected", message |-> "Request blocked"]
Thrown(msg) == [kind |-> "threw", message |-> msg]
Delegated == [kind |-> "returned", message |-> ""]
Arg(args, i) == IF i <= Len(args) THEN args[i] ELSE Undefined

\* mutant: a Request is classified as such, not by its url
fetch_ignoresRequestUrl(args) ==
    LET resource == Arg(args, 1)
    IN IF resource.type = "string" /\ isDomainBlocked(resource)
       THEN [outcome |-> Blocked, calls |-> <<>>]
       ELSE [outcome |-> Delegated, calls |-> <<[fn |-> "fetch", args |-> args]>>]

\* window.fetch(resource, init): the outcome and the calls of originalFetch
fetch(args) ==
    LET resource == Arg(args, 1)
        url == IF resource.type = "Request" THEN Str(resource.val) ELSE resource
    IN IF isDomainBlocked(url)
       THEN [outcome |-> Blocked, calls |-> <<>>]
       ELSE [outcome |-> Delegated, calls |-> <<[fn |-> "fetch", args |-> args]>>]

\* mutant: the payload of send is never inspected
xhrSend_unchecked(args) ==
    [outcome |-> Delegated, calls |-> <<[fn |-> "send", args |-> args]>>]

\* xhr.open(method, url, ...)
xhrOpen(args) ==
    IF isDomainBlocked(Arg(args, 2))
    THEN [outcome |-> Thrown("Request blocked"), calls |-> <<>>]
    ELSE [outcome |-> Delegated, calls |-> <<[fn |-> "open", args |-> args]>>]

\* xhr.send(data)
xhrSend(args) ==
    LET data == Arg(args, 1)
    IN IF Truthy(data) /\ data.type = "string" /\ isDomainBlocked(data)
       THEN [outcome |-> Thrown("Request blocked"), calls |-> <<>>]
       ELSE [outcome |-> Delegated, calls |-> <<[fn |-> "send", args |-> args]>>]

\* ---- inputs of the request interceptor ----
MaxXhr == 2

Urls == {Str(BlockedUrl), Str(BlockedVariant), Str(PlainUrl), Str("/api/items")}
FetchArgs ==
    {<<r>> : r \in Urls \cup {Str("")} \cup {Request(u.val) : u \in Urls}}
    \cup {<<r, Obj("init")>> : r \in {Str(BlockedUrl), Request(PlainUrl)}}
OpenArgs ==
    {<<Str("GET"), u>> : u \in Urls \cup {Str("")}}
    \cup {<<Str("POST"), u, Bool("true")>> : u \in {Str(BlockedVariant), Str(PlainUrl)}}
SendArgs ==
    {<<>>}
    \cup {<<d>> : d \in {Null, Str(""), Str(BlockedBody), Str(PlainBody), Str(BlockedUrl),
                         Obj("FormData")}}

(***************************************************************************)
(* Consent flow                                                             *)
(***************************************************************************)
\* localStorage.getItem('cookieConsent') is Null while nothing is stored.
\* banner: "absent" (no #consent-banner in the document), "shown", "hidden".

\* mutant: the banner is looked up before the choice is stored
acceptAllCookies_lookupFirst(consent, b) ==
    IF b = "absent"
    THEN [consent |-> consent, banner |-> b, outcome |-> Thrown("TypeError")]
    ELSE [consent |-> Str("all"), banner |-> "hidden", outcome |-> Delegated]

\* localStorage.setItem, then getElementById('consent-banner').style.display = 'none'
acceptAllCookies(consent, b) ==
    IF b = "absent"
    THEN [consent |-> Str("all"), banner |-> b, outcome |-> Thrown("TypeError")]
    ELSE [consent |-> Str("all"), banner |-> "hidden", outcome |-> Delegated]

\* mutant: the wrong choice is stored
acceptEssentialOnly_storesAll(consent, b) == acceptAllCookies(consent, b)

acceptEssentialOnly(consent, b) ==
    IF b = "absent"
    THEN [consent |-> Str("essential"), banner |-> b, outcome |-> Thrown("TypeError")]
    ELSE [consent |-> Str("essential"), banner |-> "hidden", outcome |-> Delegated]

\* initConsentManagement(): the banner element is appended to the body
initConsentManagement(b) == "shown"

\* the DOMContentLoaded listener: the banner afterwards
onDOMContentLoaded(consent, b) ==
    IF ~Truthy(consent) THEN initConsentManagement(b) ELSE b

MaxLoads == 2

InitPage ==
    /\ cookieConsent = Null
    /\ banner = "absent"
    /\ domReady = FALSE
    /\ loads = 1
    /\ xhrCount = 0
    /\ lastOp = [op |-> "load", target |-> 0, args |-> <<>>]
    /\ outcome = Delegated
    /\ origCalls = <<>>

AcceptAllCookies ==
    LET r == acceptAllCookies(cookieConsent, banner)
    IN /\ cookieConsent' = r.consent
       /\ banner' = r.banner
       /\ outcome' = r.outcome
       /\ lastOp' = [op |-> "acceptAllCookies", target |-> 0, args |-> <<>>]
       /\ origCalls' = <<>>
       /\ UNCHANGED <<domReady, loads, xhrCount>>

AcceptEssentialOnly ==
    LET r == acceptEssentialOnly(cookieConsent, banner)
    IN /\ cookieConsent' = r.consent
       /\ banner' = r.banner
       /\ outcome' = r.outcome
       /\ lastOp' = [op |-> "acceptEssentialOnly", target |-> 0, args |-> <<>>]
       /\ origCalls' = <<>>
       /\ UNCHANGED <<domReady, loads, xhrCount>>

DOMContentLoaded ==
    /\ ~domReady
    /\ domReady' = TRUE
    /\ banner' = onDOMContentLoaded(cookieConsent, banner)
    /\ lastOp' = [op |-> "DOMContentLoaded", target |-> 0, args |-> <<>>]
    /\ outcome' = Delegated
    /\ origCalls' = <<>>
    /\ UNCHANGED <<cookieConsent, loads, xhrCount>>

\* a later page load: a new document, the script evaluated again, the
\* persisted consent value kept
LoadPage ==
    /\ loads < MaxLoads
    /\ loads' = loads + 1
    /\ domReady' = FALSE
    /\ banner' = "absent"
    /\ xhrCount' = 0
    /\ lastOp' = [op |-> "load", target |-> 0, args |-> <<>>]
    /\ outcome' = Delegated
    /\ origCalls' = <<>>
    /\ UNCHANGED cookieConsent

\* new XMLHttpRequest() through the wrapped constructor
NewXHR ==
    /\ xhrCount < MaxXhr
    /\ xhrCount' = xhrCount + 1
    /\ lastOp' = [op |-> "new XMLHttpRequest", target |-> xhrCount + 1, args |-> <<>>]
    /\ outcome' = Delegated
    /\ origCalls' = <<>>
    /\ UNCHANGED <<cookieConsent, banner, domReady, loads>>

Fetch ==
    \E args \in FetchArgs :
        LET r == fetch(args)
        IN /\ lastOp' = [op |-> "fetch", target |-> 0, args |-> args]
           /\ outcome' = r.outcome
           /\ origCalls' = r.calls
           /\ UNCHANGED <<cookieConsent, banner, domReady, loads, xhrCount>>

XhrOpen ==
    /\ xhrCount > 0
    /\ \E x \in 1..xhrCount, args \in OpenArgs :
        LET r == xhrOpen(args)
        IN /\ lastOp' = [op |-> "open", target |-> x, args |-> args]
           /\ outcome' = r.outcome
           /\ origCalls' = r.calls
           /\ UNCHANGED <<cookieConsent, banner, domReady, loads, xhrCount>>

XhrSend ==
    /\ xhrCount > 0
    /\ \E x \in 1..xhrCount, args \in SendArgs :
        LET r == xhrSend(args)
        IN /\ lastOp' = [op |-> "send", target |-> x, args |-> args]
           /\ outcome' = r.outcome
           /\ origCalls' = r.calls
           /\ UNCHANGED <<cookieConsent, banner, domReady, loads, xhrCount>>

(***************************************************************************)
(* Element interceptor                                                      *)
(***************************************************************************)
\* An element: its local name, whether createElement layered the script
\* guards on it, and its attributes (Null: the attribute is not set).
AttrKeys == {"src", "data-src", "type"}
NoElement == [tag |-> "", wrapped |-> FALSE, attrs |-> [a \in AttrKeys |-> Null]]

\* originalCreateElement.call(document, tagName) in an HTML document: the
\* local name is the tag name in lower case
originalCreateElement(tagName) ==
    [tag |-> toLowerCase(tagName), wrapped |-> FALSE, attrs |-> [a \in AttrKeys |-> Null]]

\* originalSetAttribute.call(el, name, value) on an HTML element: the name
\* is lower-cased, the value is stored as a string
originalSetAttribute(el, name, value) ==
    [el EXCEPT !.attrs[toLowerCase(name)] = Str(value.val)]

\* el.getAttribute('src')
getSrc(el) == el.attrs["src"]

\* the replaced element.setAttribute of a script element
setAttribute(el, name, value) ==
    IF /\ Truthy(value)
       /\ value.type = "string"
       /\ (name = "src" \/ name = "data-src")
       /\ isDomainBlocked(value)
    THEN el
    ELSE originalSetAttribute(el, name, value)

\* mutant: the src setter forwards without classifying the value
setSrc_forwardsAll(el, value) ==
    IF Truthy(value) THEN originalSetAttribute(el, "src", value) ELSE el

\* the setter of the redefined src property of a script element
setSrc(el, value) ==
    IF Truthy(value) /\ ~isDomainBlocked(value)
    THEN setAttribute(el, "src", value)
    ELSE el

\* document.createElement(tagName)
createElement(tagName) ==
    LET el == originalCreateElement(tagName)
    IN IF toLowerCase(tagName) = "script" THEN [el EXCEPT !.wrapped = TRUE] ELSE el

\* ---- inputs of the element interceptor ----
TagNames == {"script", "SCRIPT", "Script", "img", "div"}
AttrNames == {"src", "data-src", "SRC", "type"}
AttrValues == {Str(""), Str(BlockedUrl), Str(BlockedVariant), Str(PlainUrl)}

InitScript ==
    /\ element = NoElement
    /\ elOp = [op |-> "none", name |-> "", value |-> Null, before |-> Null]

CreateElement ==
    \E t \in TagNames :
        /\ element' = createElement(t)
        /\ elOp' = [op |-> "createElement", name |-> t, value |-> Null, before |-> Null]

\* el.setAttribute(name, value) on the element last created
SetAttribute ==
    /\ element.tag # ""
    /\ \E n \in AttrNames, v \in AttrValues :
        /\ element' = IF element.wrapped THEN setAttribute(element, n, v)
                      ELSE originalSetAttribute(element, n, v)
        /\ elOp' = [op |-> "setAttribute", name |-> n, value |-> v,
                    before |-> element.attrs[toLowerCase(n)]]

\* el.src = value on a script element
SetSrc ==
    /\ element.wrapped
    /\ \E v \in AttrValues :
        /\ element' = setSrc(element, v)
        /\ elOp' = [op |-> "src=", name |-> "src", value |-> v, before |-> getSrc(element)]

(***************************************************************************)
(* Specifications                                                           *)
(***************************************************************************)
\* isDomainBlocked applied to each candidate
NextClassifier == Classify /\ UNCHANGED <<stubVars, consoleVars, pageVars, scriptVars>>
StartClassifier == InitClassifierAny /\ InitStubs /\ InitConsole /\ InitPage /\ InitScript
SpecClassifier == StartClassifier /\ [][NextClassifier]_vars

\* setupStubs called on each global object
NextStubs == SetupStubs /\ UNCHANGED <<classifierVars, consoleVars, pageVars, scriptVars>>
StartStubs == InitClassifier /\ InitStubsAny /\ InitConsole /\ InitPage /\ InitScript
SpecStubs == StartStubs /\ [][NextStubs]_vars

\* the console methods called with each argument list
NextConsole ==
    \/ ConsoleError /\ UNCHANGED <<classifierVars, stubVars, pageVars, scriptVars>>
    \/ ConsoleWarn /\ UNCHANGED <<classifierVars, stubVars, pageVars, scriptVars>>
    \/ ConsoleDebug /\ UNCHANGED <<classifierVars, stubVars, pageVars, scriptVars>>
StartConsole == InitClassifier /\ InitStubs /\ InitConsoleAny /\ InitPage /\ InitScript
SpecConsole == StartConsole /\ [][NextConsole]_vars

\* page loads, the consent buttons and requests, in any order
Next ==
    \/ AcceptAllCookies /\ UNCHANGED <<classifierVars, stubVars, consoleVars, scriptVars>>
    \/ AcceptEssentialOnly /\ UNCHANGED <<classifierVars, stubVars, consoleVars, scriptVars>>
    \/ DOMContentLoaded /\ UNCHANGED <<classifierVars, stubVars, consoleVars, scriptVars>>
    \/ LoadPage /\ UNCHANGED <<classifierVars, stubVars, consoleVars, scriptVars>>
    \/ NewXHR /\ UNCHANGED <<classifierVars, stubVars, consoleVars, scriptVars>>
    \/ Fetch /\ UNCHANGED <<classifierVars, stubVars, consoleVars, scriptVars>>
    \/ XhrOpen /\ UNCHANGED <<classifierVars, stubVars, consoleVars, scriptVars>>
    \/ XhrSend /\ UNCHANGED <<classifierVars, stubVars, consoleVars, scriptVars>>
Init == InitClassifier /\ InitStubs /\ InitConsole /\ InitPage /\ InitScript
Spec == Init /\ [][Next]_vars

\* elements created and their attributes set, in any order
NextScript ==
    \/ CreateElement /\ UNCHANGED <<classifierVars, stubVars, consoleVars, pageVars>>
    \/ SetAttribute /\ UNCHANGED <<classifierVars, stubVars, consoleVars, pageVars>>
    \/ SetSrc /\ UNCHANGED <<classifierVars, stubVars, consoleVars, pageVars>>
StartScript == InitClassifier /\ InitStubs /\ InitConsole /\ InitPage /\ InitScript
SpecScript == StartScript /\ [][NextScript]_vars

(***************************************************************************)
(* Properties                                                               *)
(***************************************************************************)
\* a and b are the same character up to ASCII letter case
SameLetter(a, b) ==
    \/ a = b
    \/ a \in DOMAIN UpperToLower /\ UpperToLower[a] = b
    \/ b \in DOMAIN UpperToLower /\ UpperToLower[b] = a

\* e occurs in s as a substring, letter case ignored
ContainsCI(s, e) ==
    \E i \in 1..(Len(s) - Len(e) + 1) :
        \A j \in 1..Len(e) : SameLetter(CharAt(s, i + j - 1), CharAt(e, j))

\* s contains a BlockList entry, or an entry with its dots written as hyphens
ContainsEntry(s) ==
    \E k \in DOMAIN blockedDomains :
        \/ ContainsCI(s, blockedDomains[k])
        \/ ContainsCI(s, replaceDots(blockedDomains[k]))

\* C1: isDomainBlocked returns a boolean for every string, null and
\* undefined: false for null, undefined and the empty string, true for a
\* string that contains (letter case ignored) a BlockList entry or its
\* dot-to-hyphen variant, false for a string that contains none.
C1_ClassifierTotal ==
    verdict # Pending =>
        /\ verdict \in {"true", "false"}
        /\ (candidate.type # "string" \/ candidate.val = "") => verdict = "false"
        /\ candidate.type = "string" =>
              (verdict = "true" <=> ContainsEntry(candidate.val))

\* an upper-case, hyphenated entry inside a longer string is classified blocked
C1_Witness ==
    /\ candidate = Str("xFACEBOOK-NET/")
    /\ verdict = "true"

\* the url a call fetch(...args) is classified by
EffectiveUrl(args) ==
    IF args[1].type = "Request" THEN Str(args[1].val) ELSE args[1]

\* C2: in every consent state, a call of the wrapped fetch whose effective
\* URL is blocked is rejected with "Request blocked" and originalFetch is
\* not called; otherwise originalFetch is called once with the same
\* arguments and its result returned.
C2_FetchBlocked ==
    lastOp.op = "fetch" =>
        IF isDomainBlocked(EffectiveUrl(lastOp.args))
        THEN outcome = [kind |-> "rejected", message |-> "Request blocked"] /\ origCalls = <<>>
        ELSE /\ outcome.kind = "returned"
             /\ origCalls = <<[fn |-> "fetch", args |-> lastOp.args]>>

\* a Request for a blocked URL is rejected after "Accept All" was chosen
C2_Witness ==
    /\ lastOp.op = "fetch"
    /\ lastOp.args[1] = Request(BlockedUrl)
    /\ cookieConsent = Str("all")
    /\ outcome.kind = "rejected"
    /\ origCalls = <<>>

\* C3: open(method, url) of a wrapped XMLHttpRequest throws "Request
\* blocked" without calling the original open when url is blocked and
\* delegates otherwise; send(data) throws it before the original send when
\* data is a non-empty blocked string and delegates otherwise.
C3_XhrBlocked ==
    /\ lastOp.op = "open" =>
          IF isDomainBlocked(lastOp.args[2])
          THEN outcome = [kind |-> "threw", message |-> "Request blocked"] /\ origCalls = <<>>
          ELSE /\ outcome.kind = "returned"
               /\ origCalls = <<[fn |-> "open", args |-> lastOp.args]>>
    /\ lastOp.op = "send" =>
          IF /\ Len(lastOp.args) > 0
             /\ lastOp.args[1].type = "string"
             /\ lastOp.args[1].val # ""
             /\ isDomainBlocked(lastOp.args[1])
          THEN outcome = [kind |-> "threw", message |-> "Request blocked"] /\ origCalls = <<>>
          ELSE /\ outcome.kind = "returned"
               /\ origCalls = <<[fn |-> "send", args |-> lastOp.args]>>

\* a request body naming a blocked domain makes send throw
C3_Witness ==
    /\ lastOp.op = "send"
    /\ lastOp.args = <<Str(BlockedBody)>>
    /\ outcome.kind = "threw"
    /\ origCalls = <<>>

\* C4 as stated: assigning a blocked value to src leaves the src attribute
\* as it was, assigning any non-blocked value makes the src attribute, and
\* what the getter returns, equal to that value.
C4_AnyNonBlockedValue ==
    elOp.op = "src=" =>
        IF isDomainBlocked(elOp.value)
        THEN element.attrs["src"] = elOp.before
        ELSE element.attrs["src"] = elOp.value /\ getSrc(element) = elOp.value

\* C4 (amended): assigning a blocked value or the empty string to src
\* leaves the src attribute as it was; assigning a non-empty non-blocked
\* string makes the src attribute, and what the getter returns, equal to it.
C4_SrcProperty ==
    elOp.op = "src=" =>
        IF isDomainBlocked(elOp.value) \/ elOp.value.val = ""
        THEN element.attrs["src"] = elOp.before
        ELSE element.attrs["src"] = elOp.value /\ getSrc(element) = elOp.value

\* a blocked value assigned to src after a plain one leaves the plain one
C4_Witness ==
    /\ elOp.op = "src="
    /\ elOp.value = Str(BlockedUrl)
    /\ elOp.before = Str(PlainUrl)
    /\ getSrc(element) = Str(PlainUrl)

\* C5: setupStubs never overwrites a global that was defined before the
\* call, whatever its value.
C5_NeverOverwrites ==
    stubRuns >= 1 =>
        \A k \in StubKeys :
            k \in DOMAIN windowBefore => GetProp(window, k) = GetProp(windowBefore, k)

\* C6: from any global object, a second call of setupStubs does not throw
\* and leaves every StubTable global bound to the value the first call left.
C6_Idempotent ==
    stubRuns >= 2 =>
        /\ ~stubThrown
        /\ \A k \in StubKeys : GetProp(window, k) = GetProp(windowAfterFirst, k)

NoisePhrases == {"err_blocked_by_client", "failed to load", "gtm", "analytics",
                 "tracking", "pixel", "error loading script"}

\* the arguments, joined by one space, contain a noise phrase (case ignored)
Noisy(args) == \E ph \in NoisePhrases : ContainsCI(join(args, " "), ph)

\* C7: console.error and console.warn call their own original sink once
\* with the same arguments when the joined arguments contain no noise
\* phrase and call nothing when they contain one; console.debug forwards
\* nothing while debug mode is off.
C7_ConsoleFilter ==
    /\ conCall \in {"error", "warn"} =>
          IF Noisy(conArgs) THEN conForwarded = <<>>
          ELSE conForwarded = <<[sink |-> conCall, args |-> conArgs]>>
    /\ (conCall = "debug" /\ ~debugMode) => conForwarded = <<>>

\* a phrase that only appears once the arguments are joined is suppressed
C7_Witness ==
    /\ conCall = "error"
    /\ conArgs = <<"Error loading", "script">>
    /\ conForwarded = <<>>

\* C8: the persisted value changes only by acceptAllCookies (to "all") and
\* acceptEssentialOnly (to "essential") and never returns to unset; the
\* banner is created at DOM-ready exactly when the value is unset then, and
\* by nothing else; after acceptEssentialOnly the value is "essential" and
\* no banner is visible.
C8_ConsentFlow ==
    [][/\ cookieConsent' # cookieConsent =>
            \/ lastOp'.op = "acceptAllCookies" /\ cookieConsent' = Str("all")
            \/ lastOp'.op = "acceptEssentialOnly" /\ cookieConsent' = Str("essential")
       /\ cookieConsent # Null => cookieConsent' # Null
       /\ (~domReady /\ domReady') =>
            IF cookieConsent = Null THEN banner = "absent" /\ banner' = "shown"
            ELSE banner' = banner /\ banner' = "absent"
       /\ (banner = "absent" /\ banner' # "absent") =>
            (~domReady /\ domReady' /\ cookieConsent = Null)
       /\ lastOp'.op = "acceptEssentialOnly" =>
            cookieConsent' = Str("essential") /\ banner' # "shown"
      ]_vars

\* a later load with "essential" persisted reaches DOM-ready without a banner
C8_Witness ==
    /\ loads = 2
    /\ domReady
    /\ lastOp.op = "DOMContentLoaded"
    /\ cookieConsent = Str("essential")
    /\ banner = "absent"

\* C9: the src and data-src attributes of a script element made by the
\* wrapped createElement never hold a blocked value, after any setAttribute
\* calls and src assignments.
C9_NoBlockedSource ==
    element.wrapped =>
        /\ ~isDomainBlocked(element.attrs["src"])
        /\ ~isDomainBlocked(element.attrs["data-src"])

\* C10: a consent function called while no #consent-banner is in the
\* document throws, and the persisted value is already "all" / "essential".
C10_StoredBeforeThrow ==
    /\ (lastOp.op = "acceptAllCookies" /\ banner = "absent") =>
          outcome.kind = "threw" /\ cookieConsent = Str("all")
    /\ (lastOp.op = "acceptEssentialOnly" /\ banner = "absent") =>
          outcome.kind = "threw" /\ cookieConsent = Str("essential")
    /\ (lastOp.op \in {"acceptAllCookies", "acceptEssentialOnly"} /\ banner # "absent") =>
          outcome.kind = "returned" /\ banner = "hidden"

\* "Essential Only" called on a later load, where no banner was created
C10_Witness ==
    /\ lastOp.op = "acceptEssentialOnly"
    /\ loads = 2
    /\ domReady
    /\ banner = "absent"
    /\ outcome.kind = "threw"
    /\ cookieConsent = Str("essential")
====
